---- MODULE Spec2Model ----
(***************************************************************************)
(* The grocery-route front-end: the sample-store component                 *)
(* (src/src/services/api.ts, GroceryShoppingApp with sampleStores), the    *)
(* remote-backed component (src/unnamed/part_001 with the api client of    *)
(* src/unnamed/part_000), the store-selection component with the first api *)
(* module (src/src/services/api.ts), the product/quantity App              *)
(* (src/unnamed/part_001) and the comma-separated-items App                *)
(* (src/unnamed/part_002).                                                 *)
(*                                                                         *)
(* Units: prices are integer cents (3.99 -> 399), distances are tenths of  *)
(* a mile (2.1 -> 21); radius and maxStores are the integers parseInt      *)
(* yields.  JavaScript's -Infinity, +Infinity and NaN are kept as values   *)
(* of their own (Num), because Math.max() of no arguments is -Infinity.    *)
(***************************************************************************)
EXTENDS Integers, Sequences, FiniteSets, TLC

\* Longest grocery list the model draws.
MaxItems == 2

VARIABLES
  app,          \* which component is mounted: "local", "remote", "select",
                \* "product" or "comma"
  groceryList,  \* useState<GroceryItem[]>: sequence of [name, quantity]
  radius,       \* useState(5)
  maxStores,    \* useState(3)
  route,        \* useState<ShoppingRoute | null>
  toasts,       \* the toasts raised by the latest handler run, in order
  isOptimizing, \* remote component: useState(false)
  stores,       \* remote component: useState<Store[]>; local: sampleStores
  location,     \* remote component: useGeolocation's latitude/longitude
  call,         \* remote component: the apiService.optimizeRoute call of the
                \* latest click and the closure values it captured; the two
                \* Apps: the fetch of the mount effect
  observed,     \* history variable: one earlier successful run of the local
                \* optimizer, its inputs and the route it stored
  newItem,      \* useState({ name: '', quantity: 1, unit: 'pcs' }): the form
                \* (store-selection component: newItemName)
  now,          \* Date.now()
  selectedStores, \* store-selection component: useState<string[]>([])
  products,     \* store-selection component: useState<Product[]>([])
  loading,      \* store-selection component: loadData has not settled yet;
                \* the two Apps: useState(false)
  fetched,      \* the calls of data functions made in the latest step and
                \* what they resolved to
  inFlight,     \* the optimize requests that have not ended yet, oldest first,
                \* each with the values its handler run captured
  nearbyCalls,  \* remote component: the getNearbyStores calls issued so far,
                \* oldest first
  quantities,   \* product App: useState<Record<number, number>>({})
  address,      \* product App: useState('')
  geoCalls,     \* product App: getCurrentPosition calls not called back yet
  plan,         \* product and comma-separated-items App: useState([])
  totalCost,    \* product App: useState<number | null>(null)
  totalDistance, \* product App: useState<number | null>(null)
  status,       \* product App: useState<string | null>(null)
  error,        \* product and comma-separated-items App: useState(null)
  itemsInput    \* comma-separated-items App: useState('')

\* the state of the form, the clock and the store-selection component
formVars == <<newItem, now, selectedStores, products, loading, fetched>>

\* the state of the later prototypes (src/unnamed/part_001:478-488 and
\* part_002:29-33) and the nearby-store calls of the remote component
protoVars == <<nearbyCalls, quantities, address, geoCalls, plan, totalCost,
               totalDistance, status, error, itemsInput>>

vars == <<app, groceryList, radius, maxStores, route, toasts, isOptimizing,
          stores, location, call, observed, formVars, inFlight, protoVars>>

----------------------------------------------------------------------------
\* JavaScript numbers that may be infinite or NaN.

Fin(n) == [k |-> "fin", v |-> n]
NegInf == [k |-> "-inf", v |-> 0]
PosInf == [k |-> "+inf", v |-> 0]
NaN == [k |-> "nan", v |-> 0]

\* a * q for an integer q
NumTimes(a, q) ==
  CASE a.k = "fin" -> Fin(a.v * q)
    [] a.k = "nan" -> NaN
    [] OTHER -> IF q = 0 THEN NaN
                ELSE IF q > 0 THEN a
                ELSE IF a.k = "-inf" THEN PosInf ELSE NegInf

\* a + b
NumPlus(a, b) ==
  CASE a.k = "nan" \/ b.k = "nan" -> NaN
    [] a.k = "fin" /\ b.k = "fin" -> Fin(a.v + b.v)
    [] a.k = "fin" -> b
    [] b.k = "fin" -> a
    [] OTHER -> IF a.k = b.k THEN a ELSE NaN

\* a - n for a finite n
NumMinus(a, n) == NumPlus(a, Fin(0 - n))

RECURSIVE MaxOf(_)
MaxOf(s) ==
  IF Len(s) = 1 THEN s[1]
  ELSE LET m == MaxOf(Tail(s)) IN IF s[1] >= m THEN s[1] ELSE m

\* Math.max(...s): -Infinity when s is empty
MathMax(s) == IF s = <<>> THEN NegInf ELSE Fin(MaxOf(s))

RECURSIVE SumSeq(_)
SumSeq(s) == IF s = <<>> THEN 0 ELSE s[1] + SumSeq(Tail(s))

\* slice forgotten: the whole array
SliceKeepsAll(s, end) == s

\* Array.prototype.slice(0, end): a negative end counts from the end
Slice(s, end) ==
  LET e == IF end < 0
           THEN (IF Len(s) + end < 0 THEN 0 ELSE Len(s) + end)
           ELSE (IF end > Len(s) THEN Len(s) ELSE end)
  IN SubSeq(s, 1, e)

----------------------------------------------------------------------------
\* The sample-store component's data.

sampleStores ==
  << [id |-> 1, name |-> "SuperMart", distance |-> 21,
      items |-> [milk |-> [price |-> 399, available |-> TRUE],
                 bread |-> [price |-> 249, available |-> TRUE],
                 eggs |-> [price |-> 429, available |-> TRUE],
                 apples |-> [price |-> 199, available |-> TRUE]]],
     [id |-> 2, name |-> "Fresh Foods", distance |-> 32,
      items |-> [milk |-> [price |-> 419, available |-> TRUE],
                 bread |-> [price |-> 299, available |-> TRUE],
                 eggs |-> [price |-> 389, available |-> TRUE],
                 apples |-> [price |-> 179, available |-> TRUE]]],
     [id |-> 3, name |-> "Budget Grocers", distance |-> 48,
      items |-> [milk |-> [price |-> 349, available |-> TRUE],
                 bread |-> [price |-> 199, available |-> TRUE],
                 eggs |-> [price |-> 399, available |-> TRUE],
                 apples |-> [price |-> 219, available |-> TRUE]]] >>

\* store.items[name]?.available
Available(store, name) ==
  name \in DOMAIN store.items /\ store.items[name].available

\* store.distance <= radius
InRadius(store, r) == store.distance <= 10 * r

\* filter forgotten: every candidate store
FilterKeepsAll(ss, r) == ss

\* stores.filter(store => store.distance <= radius)
FilterInRadius(ss, r) == SelectSeq(ss, LAMBDA s : InRadius(s, r))

----------------------------------------------------------------------------
\* optimizeRoute of the sample-store component, computed as the code does.

\* the {store, price} entries pushed for one grocery item, in store order
OptionsOf(item, avail) ==
  LET stocked == SelectSeq(avail, LAMBDA s : Available(s, item.name))
  IN [i \in 1..Len(stocked) |->
        [store |-> stocked[i],
         price |-> stocked[i].items[item.name].price * item.quantity]]

\* one step of a stable ascending sort on price
RECURSIVE InsertByPrice(_, _)
InsertByPrice(x, sorted) ==
  IF sorted = <<>> THEN <<x>>
  ELSE IF x.price - sorted[1].price < 0 THEN <<x>> \o sorted
  ELSE <<sorted[1]>> \o InsertByPrice(x, Tail(sorted))

\* options.sort((a, b) => a.price - b.price)
RECURSIVE SortByPrice(_)
SortByPrice(s) ==
  IF s = <<>> THEN <<>>
  ELSE InsertByPrice(s[Len(s)], SortByPrice(SubSeq(s, 1, Len(s) - 1)))

\* itemStoreMaps after the first forEach: the object is keyed by item.name,
\* so the entry written for a name is the one of the last item with that name
ItemStoreMaps(list, avail) ==
  [n \in {list[i].name : i \in DOMAIN list} |->
     LET last == CHOOSE i \in DOMAIN list :
                   /\ list[i].name = n
                   /\ \A j \in DOMAIN list : list[j].name = n => j <= i
     IN SortByPrice(OptionsOf(list[last], avail))]

\* an item whose name is already in its store's bucket is not pushed again
RECURSIVE GreedyOncePerName(_, _, _)
GreedyOncePerName(list, maps, n) ==
  IF n = 0 THEN [storeItemMap |-> << >>, totalCost |-> 0]
  ELSE
    LET acc == GreedyOncePerName(list, maps, n - 1)
        item == list[n]
        cheapestOptions == maps[item.name]
    IN IF Len(cheapestOptions) > 0
       THEN
         LET cheapest == cheapestOptions[1]
             id == cheapest.store.id
             old == IF id \in DOMAIN acc.storeItemMap
                    THEN acc.storeItemMap[id]
                    ELSE [store |-> cheapest.store, items |-> <<>>, cost |-> 0]
             new == IF \E j \in DOMAIN old.items : old.items[j].name = item.name
                    THEN old
                    ELSE [store |-> old.store,
                          items |-> Append(old.items, item),
                          cost |-> old.cost + cheapest.price]
         IN [storeItemMap |->
               [k \in DOMAIN acc.storeItemMap \cup {id} |->
                  IF k = id THEN new ELSE acc.storeItemMap[k]],
             totalCost |-> acc.totalCost + cheapest.price]
       ELSE acc

\* the second forEach: storeItemMap (keyed by store id) and totalCost
RECURSIVE Greedy(_, _, _)
Greedy(list, maps, n) ==
  IF n = 0 THEN [storeItemMap |-> << >>, totalCost |-> 0]
  ELSE
    LET acc == Greedy(list, maps, n - 1)
        item == list[n]
        cheapestOptions == maps[item.name]
    IN IF Len(cheapestOptions) > 0
       THEN
         LET cheapest == cheapestOptions[1]
             id == cheapest.store.id
             old == IF id \in DOMAIN acc.storeItemMap
                    THEN acc.storeItemMap[id]
                    ELSE [store |-> cheapest.store, items |-> <<>>, cost |-> 0]
             new == [store |-> old.store,
                     items |-> Append(old.items, item),
                     cost |-> old.cost + cheapest.price]
         IN [storeItemMap |->
               [k \in DOMAIN acc.storeItemMap \cup {id} |->
                  IF k = id THEN new ELSE acc.storeItemMap[k]],
             totalCost |-> acc.totalCost + cheapest.price]
       ELSE acc

\* Object.values(storeItemMap): the keys '1', '2', '3' are integer-like, so
\* they are enumerated in ascending numeric order
RECURSIVE ObjectValues(_)
ObjectValues(m) ==
  IF DOMAIN m = {} THEN <<>>
  ELSE LET k == CHOOSE x \in DOMAIN m : \A y \in DOMAIN m : x <= y
       IN <<m[k]>> \o ObjectValues([j \in DOMAIN m \ {k} |-> m[j]])

RECURSIVE InsertByDistance(_, _)
InsertByDistance(x, sorted) ==
  IF sorted = <<>> THEN <<x>>
  ELSE IF x.store.distance - sorted[1].store.distance < 0 THEN <<x>> \o sorted
  ELSE <<sorted[1]>> \o InsertByDistance(x, Tail(sorted))

\* buckets.sort((a, b) => a.store.distance - b.store.distance)
RECURSIVE SortByDistance(_)
SortByDistance(s) ==
  IF s = <<>> THEN <<>>
  ELSE InsertByDistance(s[Len(s)], SortByDistance(SubSeq(s, 1, Len(s) - 1)))

\* routeStores
RouteStores(list, avail, m) ==
  Slice(SortByDistance(ObjectValues(
          Greedy(list, ItemStoreMaps(list, avail), Len(list)).storeItemMap)), m)

\* expensiveStoreCost: groceryList.reduce over Math.max of the stocked prices
RECURSIVE ExpensiveStoreCost(_, _, _)
ExpensiveStoreCost(list, avail, n) ==
  IF n = 0 THEN Fin(0)
  ELSE
    LET item == list[n]
        stocked == SelectSeq(avail, LAMBDA s : Available(s, item.name))
        maxPrice == MathMax([i \in 1..Len(stocked) |->
                               stocked[i].items[item.name].price])
    IN NumPlus(ExpensiveStoreCost(list, avail, n - 1),
               NumTimes(maxPrice, item.quantity))

\* totalDistance added up over every bucket, before the slice
LocalRouteDistanceOfAllBuckets(list, avail, m) ==
  LET g == Greedy(list, ItemStoreMaps(list, avail), Len(list))
      routeStores == RouteStores(list, avail, m)
      all == ObjectValues(g.storeItemMap)
  IN [stores |-> [i \in 1..Len(routeStores) |-> routeStores[i].store],
      totalCost |-> g.totalCost,
      totalDistance |->
        SumSeq([i \in 1..Len(all) |-> all[i].store.distance]),
      savings |-> NumMinus(ExpensiveStoreCost(list, avail, Len(list)),
                           g.totalCost)]

\* the object handed to setRoute
LocalRoute(list, avail, m) ==
  LET g == Greedy(list, ItemStoreMaps(list, avail), Len(list))
      routeStores == RouteStores(list, avail, m)
  IN [stores |-> [i \in 1..Len(routeStores) |-> routeStores[i].store],
      totalCost |-> g.totalCost,
      totalDistance |->
        SumSeq([i \in 1..Len(routeStores) |-> routeStores[i].store.distance]),
      savings |-> NumMinus(ExpensiveStoreCost(list, avail, Len(list)),
                           g.totalCost)]

----------------------------------------------------------------------------
\* The number inputs: setRadius(parseInt(e.target.value) || 5) and
\* setMaxStores(parseInt(e.target.value) || 3).  A typed text is a sequence of
\* one-character strings.

DigitOf(c) ==
  CASE c = "0" -> 0 [] c = "1" -> 1 [] c = "2" -> 2 [] c = "3" -> 3
    [] c = "4" -> 4 [] c = "5" -> 5 [] c = "6" -> 6 [] c = "7" -> 7
    [] c = "8" -> 8 [] c = "9" -> 9 [] OTHER -> 0 - 1

\* value of the longest prefix of digits, given the value read so far
RECURSIVE DigitsPrefix(_, _, _)
DigitsPrefix(t, acc, seen) ==
  IF t = <<>> \/ DigitOf(t[1]) < 0 THEN [nan |-> ~seen, v |-> acc]
  ELSE DigitsPrefix(Tail(t), 10 * acc + DigitOf(t[1]), TRUE)

\* parseInt(text): an optional sign, then digits; NaN when there is no digit
ParseInt(t) ==
  IF t # <<>> /\ t[1] = "-"
  THEN LET p == DigitsPrefix(Tail(t), 0, FALSE) IN [nan |-> p.nan, v |-> 0 - p.v]
  ELSE IF t # <<>> /\ t[1] = "+" THEN DigitsPrefix(Tail(t), 0, FALSE)
  ELSE DigitsPrefix(t, 0, FALSE)

\* parseInt(text) || dflt: NaN and 0 are falsy
ParseIntOr(t, dflt) ==
  LET p == ParseInt(t) IN IF p.nan \/ p.v = 0 THEN dflt ELSE p.v

\* texts typed into the radius and the maximum-stores inputs
RadiusTexts == { <<>>, <<"2">>, <<"4">>, <<"5">> }
MaxStoresTexts == { <<"0">>, <<"1">>, <<"3">>, <<"-", "1">> }

RadiusValues == { ParseIntOr(t, 5) : t \in RadiusTexts }
MaxStoresValues == { ParseIntOr(t, 3) : t \in MaxStoresTexts }

----------------------------------------------------------------------------
\* Values of the state.

NoRoute == [null |-> TRUE]
NoLocation == [null |-> TRUE]
Here == [latitude |-> 40, longitude |-> 74]
NoCall == [status |-> "none"]
NoRun == [null |-> TRUE]
\* the history variable is not kept
NotObserving == [off |-> TRUE]
\* no data function was called in the latest step
NoFetch == << >>
\* JavaScript's null, and a value of a state that may be null
Null == [null |-> TRUE]
Some(v) == [some |-> v]
\* useState({ name: '', quantity: 1, unit: 'pcs' })
EmptyForm == [name |-> <<>>, quantity |-> 1, unit |-> "pcs"]

\* the toasts of the two optimizeRoute handlers
ToastEmptyList ==
  [title |-> "Error", variant |-> "destructive",
   description |-> "Please add items to your grocery list first"]
ToastLocationRequired ==
  [title |-> "Location Required", variant |-> "destructive",
   description |-> "Please enable location access to optimize your route"]
ToastNoStores ==
  [title |-> "No stores found", variant |-> "destructive",
   description |-> "No stores found within the specified radius"]
ToastApiError ==
  [title |-> "API Error", variant |-> "destructive",
   description |-> "Using local optimization as fallback"]
\* description: `Found route visiting ${n} stores`
ToastOptimized(n) ==
  [title |-> "Route optimized!", variant |-> "default", visiting |-> n]

\* grocery-list entries: what addItem appends for the names and quantities
\* typed ("tofu" is stocked by no store; a typed "-1" is kept by
\* parseInt(value) || 1)
ItemNames == {"milk", "eggs", "tofu"}
Quantities == {1, 2, 0 - 1}
Entries == [name : ItemNames, quantity : Quantities]
RemoteEntries == [name : {"milk"}, quantity : {1}]

ListsOf(S, n) == UNION { [1..k -> S] : k \in 0..n }

\* the sequence without its i-th element
RemoveAt(s, i) == SubSeq(s, 1, i - 1) \o SubSeq(s, i + 1, Len(s))

----------------------------------------------------------------------------
\* The remote-backed component's data.  Store latitude/longitude are left
\* out: no modelled code reads them.

\* the fallback list loadNearbyStores installs when getNearbyStores fails
remoteSampleStores ==
  << [id |-> 1, name |-> "SuperMart", distance |-> 21,
      items |-> [milk |-> [price |-> 399, available |-> TRUE],
                 bread |-> [price |-> 249, available |-> TRUE],
                 eggs |-> [price |-> 429, available |-> TRUE],
                 apples |-> [price |-> 199, available |-> TRUE]]],
     [id |-> 2, name |-> "Fresh Foods", distance |-> 32,
      items |-> [milk |-> [price |-> 419, available |-> TRUE],
                 bread |-> [price |-> 299, available |-> TRUE],
                 eggs |-> [price |-> 389, available |-> TRUE],
                 apples |-> [price |-> 179, available |-> TRUE]]] >>

\* a list the stores endpoint may answer with: not ordered by distance, and
\* one store farther than any radius typed
serverStores ==
  << [id |-> 11, name |-> "Far Foods", distance |-> 60,
      items |-> [milk |-> [price |-> 300, available |-> TRUE]]],
     [id |-> 12, name |-> "Corner Shop", distance |-> 10,
      items |-> [milk |-> [price |-> 450, available |-> TRUE]]],
     [id |-> 13, name |-> "Mid Market", distance |-> 30,
      items |-> [milk |-> [price |-> 400, available |-> FALSE]]] >>

StoreLists == { <<>>, remoteSampleStores, serverStores }

\* bodies the optimize endpoint may answer with (OptimizeRouteResponse)
RemoteRoutes ==
  { [stores |-> <<serverStores[2]>>, totalCost |-> 450, totalDistance |-> 10,
     savings |-> 0, route |-> [coordinates |-> <<<<40, 74>>>>, duration |-> 300]],
    [stores |-> <<>>, totalCost |-> 0, totalDistance |-> 0,
     savings |-> 0, route |-> [coordinates |-> <<>>, duration |-> 0]] }

\* how one fetch of /route/optimize ends: it rejects, or it yields a response
\* with an ok flag whose body parses as JSON or not
FetchOutcomes ==
  { [kind |-> "network_error", ok |-> FALSE, parses |-> FALSE, body |-> NoRoute] }
  \cup [kind : {"response"}, ok : BOOLEAN, parses : {TRUE}, body : RemoteRoutes]
  \cup [kind : {"response"}, ok : {TRUE}, parses : {FALSE}, body : {NoRoute}]

\* the response.ok test inverted: an ok response is thrown away
ApiOptimizeRouteInvertedOk(outcome) ==
  IF outcome.kind = "network_error" THEN [resolved |-> FALSE, value |-> NoRoute]
  ELSE IF outcome.ok THEN [resolved |-> FALSE, value |-> NoRoute]
  ELSE IF ~outcome.parses THEN [resolved |-> FALSE, value |-> NoRoute]
  ELSE [resolved |-> TRUE, value |-> outcome.body]

\* apiService.optimizeRoute: the promise resolves with the parsed body of an
\* ok response and rejects otherwise
ApiOptimizeRoute(outcome) ==
  IF outcome.kind = "network_error" THEN [resolved |-> FALSE, value |-> NoRoute]
  ELSE IF ~outcome.ok THEN [resolved |-> FALSE, value |-> NoRoute]
  ELSE IF ~outcome.parses THEN [resolved |-> FALSE, value |-> NoRoute]
  ELSE [resolved |-> TRUE, value |-> outcome.body]

\* the catch block's "basic local optimization"
FallbackRoute(list, avail, m) ==
  [stores |-> Slice(avail, m),
   totalCost |-> Len(list) * 1500,
   totalDistance |->
     LET kept == Slice(avail, m)
     IN SumSeq([i \in 1..Len(kept) |-> kept[i].distance]),
   savings |-> Len(list) * 500,
   route |-> [coordinates |-> <<>>, duration |-> 0]]

----------------------------------------------------------------------------
\* Handlers of the sample-store component.

\* onChange of the radius input
setRadius(text) ==
  /\ app = "local"
  /\ radius' = ParseIntOr(text, 5)
  /\ toasts' = <<>>
  /\ UNCHANGED <<protoVars, inFlight, formVars, app, groceryList, maxStores, route, isOptimizing, stores,
                 location, call, observed>>

\* onChange of the max-stores input
setMaxStores(text) ==
  /\ app = "local"
  /\ maxStores' = ParseIntOr(text, 3)
  /\ toasts' = <<>>
  /\ UNCHANGED <<protoVars, inFlight, formVars, app, groceryList, radius, route, isOptimizing, stores,
                 location, call, observed>>

\* savings taken against the totalCost of the route stored before, not the
\* total of this run
OptimizeLocalStaleTotal(list, r, m) ==
  IF Len(list) = 0
  THEN [toasts |-> <<ToastEmptyList>>, sets |-> FALSE, route |-> NoRoute]
  ELSE
    LET availableStores == FilterInRadius(sampleStores, r)
    IN IF Len(availableStores) = 0
       THEN [toasts |-> <<ToastNoStores>>, sets |-> FALSE, route |-> NoRoute]
       ELSE [toasts |-> <<ToastOptimized(
                            Len(RouteStores(list, availableStores, m)))>>,
             sets |-> TRUE,
             route |->
               LET new == LocalRoute(list, availableStores, m)
               IN IF route = NoRoute THEN new
                  ELSE [new EXCEPT !.savings = NumMinus(
                          NumPlus(new.savings, Fin(new.totalCost)),
                          route.totalCost)]]

\* no guard on the empty list: it is optimized like any other
OptimizeLocalNoEmptyGuard(list, r, m) ==
  LET availableStores == FilterInRadius(sampleStores, r)
  IN IF Len(availableStores) = 0
     THEN [toasts |-> <<ToastNoStores>>, sets |-> FALSE, route |-> NoRoute]
     ELSE [toasts |-> <<ToastOptimized(
                          Len(RouteStores(list, availableStores, m)))>>,
           sets |-> TRUE,
           route |-> LocalRoute(list, availableStores, m)]

\* an item without any option aborts the run
OptimizeLocalAbortsOnUnstocked(list, r, m) ==
  IF Len(list) = 0
  THEN [toasts |-> <<ToastEmptyList>>, sets |-> FALSE, route |-> NoRoute]
  ELSE
    LET availableStores == FilterInRadius(sampleStores, r)
    IN IF \/ Len(availableStores) = 0
          \/ \E i \in DOMAIN list : OptionsOf(list[i], availableStores) = <<>>
       THEN [toasts |-> <<ToastNoStores>>, sets |-> FALSE, route |-> NoRoute]
       ELSE [toasts |-> <<ToastOptimized(
                            Len(RouteStores(list, availableStores, m)))>>,
             sets |-> TRUE,
             route |-> LocalRoute(list, availableStores, m)]

\* what one run of optimizeRoute does: the toasts it raises and the route it
\* hands to setRoute, if any
OptimizeLocal(list, r, m) ==
  IF Len(list) = 0
  THEN [toasts |-> <<ToastEmptyList>>, sets |-> FALSE, route |-> NoRoute]
  ELSE
    LET availableStores == FilterInRadius(sampleStores, r)
    IN IF Len(availableStores) = 0
       THEN [toasts |-> <<ToastNoStores>>, sets |-> FALSE, route |-> NoRoute]
       ELSE [toasts |-> <<ToastOptimized(
                            Len(RouteStores(list, availableStores, m)))>>,
             sets |-> TRUE,
             route |-> LocalRoute(list, availableStores, m)]

\* click on "Optimize Route" (always enabled) or "Generate Route"
optimizeRoute ==
  /\ app = "local"
  /\ LET run == OptimizeLocal(groceryList, radius, maxStores)
     IN /\ toasts' = run.toasts
        /\ route' = IF run.sets THEN run.route ELSE route
        /\ observed' \in
             IF observed = NotObserving \/ ~run.sets THEN {observed}
             ELSE IF observed = NoRun
             THEN {NoRun, [groceryList |-> groceryList, radius |-> radius,
                           maxStores |-> maxStores, route |-> run.route,
                           overwritten |-> FALSE]}
             ELSE {[observed EXCEPT !.overwritten =
                      @ \/ run.route # observed.route]}
  /\ UNCHANGED <<protoVars, inFlight, formVars, app, groceryList, radius, maxStores, isOptimizing, stores,
                 location, call>>

----------------------------------------------------------------------------
\* Handlers of the remote-backed component.

\* the buttons are not disabled while a request is in flight
OptimizeEnabledWhileBusy ==
  location # NoLocation /\ Len(groceryList) # 0

\* both optimize buttons are disabled while this is false
OptimizeEnabled ==
  ~isOptimizing /\ location # NoLocation /\ Len(groceryList) # 0

\* click on an optimize button: optimizeRoute up to its await.  The closure
\* keeps the groceryList, stores, radius and maxStores of the render clicked.
optimizeRouteClick ==
  /\ app = "remote"
  /\ OptimizeEnabled
  /\ IF Len(groceryList) = 0
     THEN /\ toasts' = <<ToastEmptyList>>
          /\ UNCHANGED <<inFlight, isOptimizing, call>>
     ELSE IF location = NoLocation
     THEN /\ toasts' = <<ToastLocationRequired>>
          /\ UNCHANGED <<inFlight, isOptimizing, call>>
     ELSE /\ toasts' = <<>>
          /\ isOptimizing' = TRUE
          /\ call' = [status |-> "pending", items |-> groceryList,
                      stores |-> stores, radius |-> radius,
                      maxStores |-> maxStores, location |-> location]
          /\ inFlight' = Append(inFlight, call')
  /\ UNCHANGED <<protoVars, formVars, app, groceryList, radius, maxStores, route, stores, location,
                 observed>>

\* the return after the "No stores found" toast forgotten
ContinueOptimizeNoReturn(c, outcome, oldRoute) ==
  LET res == ApiOptimizeRoute(outcome)
  IN IF res.resolved
     THEN [toasts |-> <<ToastOptimized(Len(res.value.stores))>>,
           route |-> res.value]
     ELSE
       LET availableStores == FilterInRadius(c.stores, c.radius)
       IN [toasts |-> IF Len(availableStores) = 0
                      THEN <<ToastApiError, ToastNoStores>>
                      ELSE <<ToastApiError>>,
           route |-> FallbackRoute(c.items, availableStores, c.maxStores)]

\* the rest of optimizeRoute once the request has ended: the try block after
\* the await, or the catch block, then finally
ContinueOptimize(c, outcome, oldRoute) ==
  LET res == ApiOptimizeRoute(outcome)
  IN IF res.resolved
     THEN [toasts |-> <<ToastOptimized(Len(res.value.stores))>>,
           route |-> res.value]
     ELSE
       LET availableStores == FilterInRadius(c.stores, c.radius)
       IN IF Len(availableStores) = 0
          THEN [toasts |-> <<ToastApiError, ToastNoStores>>, route |-> oldRoute]
          ELSE [toasts |-> <<ToastApiError>>,
                route |-> FallbackRoute(c.items, availableStores, c.maxStores)]

\* the request of one of the runs in flight ends
optimizeRouteSettles(outcome) ==
  /\ app = "remote"
  /\ \E i \in DOMAIN inFlight :
       /\ LET c == inFlight[i]
              run == ContinueOptimize(c, outcome, route)
          IN /\ toasts' = run.toasts
             /\ route' = run.route
             /\ call' = [status |-> "settled", items |-> c.items,
                         stores |-> c.stores, radius |-> c.radius,
                         maxStores |-> c.maxStores, location |-> c.location,
                         outcome |-> outcome]
       /\ inFlight' = RemoveAt(inFlight, i)
  /\ isOptimizing' = FALSE
  /\ UNCHANGED <<protoVars, formVars, app, groceryList, radius, maxStores, stores, location,
                 observed>>

\* onChange of the remote component's max-stores input
setMaxStoresRemote(text) ==
  /\ app = "remote"
  /\ maxStores' = ParseIntOr(text, 3)
  /\ toasts' = <<>>
  /\ UNCHANGED <<protoVars, inFlight, formVars, app, groceryList, radius, route, isOptimizing, stores,
                 location, call, observed>>

----------------------------------------------------------------------------
\* The specification: a component with any grocery list, settings, stores and
\* location its inputs can have brought it to.  No route is stored yet, except
\* that an emptied list may come with the route of the items removed from it
\* (addItem twice, optimizeRoute, removeItem twice).

EarlierRoute ==
  LocalRoute(<<[name |-> "milk", quantity |-> 1],
               [name |-> "eggs", quantity |-> 1]>>, sampleStores, 3)

InitLocal ==
  /\ app = "local"
  /\ groceryList \in ListsOf(Entries, MaxItems)
  /\ radius \in RadiusValues
  /\ maxStores \in MaxStoresValues
  /\ stores = sampleStores
  /\ location = NoLocation
  /\ route \in (IF groceryList = <<>> THEN {NoRoute, EarlierRoute} ELSE {NoRoute})

InitRemote ==
  /\ app = "remote"
  /\ groceryList \in ListsOf(RemoteEntries, MaxItems)
  /\ radius \in RadiusValues
  /\ maxStores \in MaxStoresValues
  /\ location \in {NoLocation, Here}
  /\ stores \in (IF location = NoLocation THEN {<<>>} ELSE StoreLists)
  /\ route = NoRoute

\* the later prototypes are not mounted, and no request has been issued
InitProto ==
  /\ inFlight = <<>>
  /\ nearbyCalls = <<>>
  /\ quantities = <<>>
  /\ address = <<>>
  /\ geoCalls = 0
  /\ plan = <<>>
  /\ totalCost = Null
  /\ totalDistance = Null
  /\ status = Null
  /\ error = Null
  /\ itemsInput = <<>>

\* what is the same in every state the two components start from
InitRest ==
  /\ InitProto
  /\ toasts = <<>>
  /\ isOptimizing = FALSE
  /\ call = NoCall
  /\ newItem = EmptyForm
  /\ now = 1
  /\ selectedStores = <<>>
  /\ products = <<>>
  /\ loading = FALSE
  /\ fetched = NoFetch

Init ==
  /\ InitLocal \/ InitRemote
  /\ InitRest
  /\ observed = NotObserving

Next ==
  \/ \E t \in RadiusTexts : setRadius(t)
  \/ \E t \in MaxStoresTexts : setMaxStores(t)
  \/ optimizeRoute
  \/ optimizeRouteClick
  \/ \E o \in FetchOutcomes : optimizeRouteSettles(o)
  \/ \E t \in MaxStoresTexts : setMaxStoresRemote(t)

Spec == Init /\ [][Next]_vars

\* The sample-store component with the history variable kept: one successful
\* run is remembered, to be compared with the later runs on the same inputs.
InitHistory ==
  /\ InitLocal
  /\ InitRest
  /\ observed = NoRun

NextHistory ==
  \/ \E t \in RadiusTexts : setRadius(t)
  \/ \E t \in MaxStoresTexts : setMaxStores(t)
  \/ optimizeRoute

SpecHistory == InitHistory /\ [][NextHistory]_vars

----------------------------------------------------------------------------
\* The grocery-list form of the sample-store and the remote-backed component
\* (the same code in both).  A typed name is a sequence of one-character
\* strings, so that trim and toLowerCase are computed on it; an entry of the
\* list is the GroceryItem addItem builds.

\* Latest value of Date.now() the model draws.
MaxClock == 2

UpperCase == << "A", "B", "C", "D", "E", "F", "G", "H", "I", "J", "K", "L", "M",
               "N", "O", "P", "Q", "R", "S", "T", "U", "V", "W", "X", "Y", "Z" >>
LowerCase == << "a", "b", "c", "d", "e", "f", "g", "h", "i", "j", "k", "l", "m",
               "n", "o", "p", "q", "r", "s", "t", "u", "v", "w", "x", "y", "z" >>
WhiteSpace == {" ", "\t", "\n"}

\* String.prototype.toLowerCase
ToLowerCase(t) ==
  [i \in DOMAIN t |->
     IF \E k \in DOMAIN UpperCase : UpperCase[k] = t[i]
     THEN LowerCase[CHOOSE k \in DOMAIN UpperCase : UpperCase[k] = t[i]]
     ELSE t[i]]

RECURSIVE TrimStart(_)
TrimStart(t) ==
  IF t # <<>> /\ t[1] \in WhiteSpace THEN TrimStart(Tail(t)) ELSE t

RECURSIVE TrimEnd(_)
TrimEnd(t) ==
  IF t # <<>> /\ t[Len(t)] \in WhiteSpace
  THEN TrimEnd(SubSeq(t, 1, Len(t) - 1)) ELSE t

\* String.prototype.trim
Trim(t) == TrimEnd(TrimStart(t))

\* texts typed into the item-name and the quantity inputs
NameTexts == { <<>>, <<" ">>, <<"M", "i">>, <<"m", "i">>, <<" ", "T", " ">> }
QuantityTexts == { <<>>, <<"0">>, <<"2">>, <<"-", "1">> }

ToastEnterName ==
  [title |-> "Error", variant |-> "destructive",
   description |-> "Please enter an item name"]

\* onChange of the item-name input
setNewItemName(text) ==
  /\ app \in {"local", "remote"}
  /\ newItem' = [newItem EXCEPT !.name = text]
  /\ toasts' = <<>>
  /\ UNCHANGED <<protoVars, inFlight, app, groceryList, radius, maxStores, route, isOptimizing,
                 stores, location, call, observed, now, selectedStores,
                 products, loading, fetched>>

\* onChange of the quantity input
setNewItemQuantity(text) ==
  /\ app \in {"local", "remote"}
  /\ newItem' = [newItem EXCEPT !.quantity = ParseIntOr(text, 1)]
  /\ toasts' = <<>>
  /\ UNCHANGED <<protoVars, inFlight, app, groceryList, radius, maxStores, route, isOptimizing,
                 stores, location, call, observed, now, selectedStores,
                 products, loading, fetched>>

\* the name tested without trim: a name of blanks only is added
AddItemNoTrim(list, form, clock) ==
  IF form.name = <<>>
  THEN [toasts |-> <<ToastEnterName>>, groceryList |-> list, newItem |-> form]
  ELSE [toasts |-> <<>>,
        groceryList |-> Append(list, [id |-> clock,
                                      name |-> ToLowerCase(form.name),
                                      quantity |-> form.quantity,
                                      unit |-> form.unit]),
        newItem |-> EmptyForm]

\* what addItem does: the toast it raises, the list and the form it sets
AddItem(list, form, clock) ==
  IF Trim(form.name) = <<>>
  THEN [toasts |-> <<ToastEnterName>>, groceryList |-> list, newItem |-> form]
  ELSE [toasts |-> <<>>,
        groceryList |-> Append(list, [id |-> clock,
                                      name |-> ToLowerCase(form.name),
                                      quantity |-> form.quantity,
                                      unit |-> form.unit]),
        newItem |-> EmptyForm]

\* click on "Add Item", or Enter in the name input
addItem ==
  /\ app \in {"local", "remote"}
  /\ Trim(newItem.name) = <<>> \/ Len(groceryList) < MaxItems
  /\ LET run == AddItem(groceryList, newItem, now)
     IN /\ toasts' = run.toasts
        /\ groceryList' = run.groceryList
        /\ newItem' = run.newItem
  /\ UNCHANGED <<protoVars, inFlight, app, radius, maxStores, route, isOptimizing, stores,
                 location, call, observed, now, selectedStores, products,
                 loading, fetched>>

\* click on the X of the entry with this id
removeItem(id) ==
  /\ app \in {"local", "remote"}
  /\ \E i \in DOMAIN groceryList : groceryList[i].id = id
  /\ groceryList' = SelectSeq(groceryList, LAMBDA item : item.id # id)
  /\ toasts' = <<>>
  /\ UNCHANGED <<protoVars, inFlight, app, radius, maxStores, route, isOptimizing, stores,
                 location, call, observed, newItem, now, selectedStores,
                 products, loading, fetched>>

\* time passes between two handler runs
tick ==
  /\ now < MaxClock
  /\ now' = now + 1
  /\ UNCHANGED <<protoVars, inFlight, app, groceryList, radius, maxStores, route, toasts,
                 isOptimizing, stores, location, call, observed, newItem,
                 selectedStores, products, loading, fetched>>

InitList ==
  /\ app \in {"local", "remote"}
  /\ groceryList = <<>>
  /\ newItem = EmptyForm
  /\ now = 1
  /\ radius = 5
  /\ maxStores = 3
  /\ route = NoRoute
  /\ toasts = <<>>
  /\ isOptimizing = FALSE
  /\ stores = IF app = "local" THEN sampleStores ELSE <<>>
  /\ location = NoLocation
  /\ call = NoCall
  /\ observed = NoRun
  /\ selectedStores = <<>>
  /\ products = <<>>
  /\ loading = FALSE
  /\ fetched = NoFetch
  /\ InitProto

NextList ==
  \/ \E t \in NameTexts : setNewItemName(t)
  \/ \E t \in QuantityTexts : setNewItemQuantity(t)
  \/ addItem
  \/ \E id \in 1..MaxClock : removeItem(id)
  \/ tick

SpecList == InitList /\ [][NextList]_vars

----------------------------------------------------------------------------
\* The first api module (fetchStores ... optimizeShoppingRoute) and the
\* store-selection component that calls it.  In this component groceryList is
\* its items (names), route its optimizedRoute.  Response bodies are of the
\* declared types; Cost is in cents.

NoBody == [null |-> TRUE]

mockStores ==
  << [name |-> "Walmart", address |-> "123 Main St"],
     [name |-> "Target", address |-> "456 Oak Ave"],
     [name |-> "Kroger", address |-> "789 Pine Rd"] >>

mockProducts ==
  << [name |-> "Milk", category |-> "Dairy"],
     [name |-> "Bread", category |-> "Bakery"],
     [name |-> "Eggs", category |-> "Dairy"],
     [name |-> "Apples", category |-> "Produce"],
     [name |-> "Chicken", category |-> "Meat"] >>

mockProductsByCategory ==
  [Dairy |-> <<[name |-> "Milk"], [name |-> "Eggs"]>>,
   Bakery |-> <<[name |-> "Bread"]>>,
   Produce |-> <<[name |-> "Apples"]>>,
   Meat |-> <<[name |-> "Chicken"]>>]

mockStoreInventories ==
  [Walmart |-> <<[product |-> "Milk", price |-> 399, inventory |-> 20],
                 [product |-> "Bread", price |-> 249, inventory |-> 15]>>,
   Target |-> <<[product |-> "Eggs", price |-> 429, inventory |-> 12],
                [product |-> "Apples", price |-> 199, inventory |-> 25]>>]

\* bodies the endpoints may answer with
StoresBodies ==
  { << >>,
    << [name |-> "Aldi", address |-> "1 Elm St"],
       [name |-> "Target", address |-> "456 Oak Ave"] >> }
ProductsBodies == { << [name |-> "Tofu", category |-> "Vegan"] >> }
ProductsByCategoryBodies == { [Vegan |-> <<[name |-> "Tofu"]>>] }
StoreInventoriesBodies ==
  { [Aldi |-> <<[product |-> "Tofu", price |-> 299, inventory |-> 3]>>] }
OptimizedRouteBodies == { [Plan |-> [Aldi |-> <<"Milk">>], Cost |-> 1234] }

\* values Math.random() * 50 + 25 may take: from 25.00 up to, not including,
\* 75.00
MockCosts == {2500, 7499}

\* how one fetch ends: it rejects, or it yields a response with an ok flag
\* whose body parses as JSON or not
DataOutcomes(bodies) ==
  { [kind |-> "network_error", ok |-> FALSE, parses |-> FALSE, body |-> NoBody] }
  \cup [kind : {"response"}, ok : BOOLEAN, parses : {TRUE}, body : bodies]
  \cup [kind : {"response"}, ok : BOOLEAN, parses : {FALSE}, body : {NoBody}]

\* the try block of a data function: await fetch, throw unless response.ok,
\* await response.json()
TryFetchJson(o) ==
  IF o.kind = "network_error" THEN [threw |-> TRUE, value |-> NoBody]
  ELSE IF ~o.ok THEN [threw |-> TRUE, value |-> NoBody]
  ELSE IF ~o.parses THEN [threw |-> TRUE, value |-> NoBody]
  ELSE [threw |-> FALSE, value |-> o.body]

\* the catch block throws again instead of returning the mock stores
FetchStoresRethrows(o) ==
  LET t == TryFetchJson(o)
  IN IF t.threw THEN [resolved |-> FALSE, value |-> NoBody]
     ELSE [resolved |-> TRUE, value |-> t.value]

FetchStores(o) ==
  LET t == TryFetchJson(o)
  IN IF t.threw THEN [resolved |-> TRUE, value |-> mockStores]
     ELSE [resolved |-> TRUE, value |-> t.value]

FetchProducts(o) ==
  LET t == TryFetchJson(o)
  IN IF t.threw THEN [resolved |-> TRUE, value |-> mockProducts]
     ELSE [resolved |-> TRUE, value |-> t.value]

FetchProductsByCategory(o) ==
  LET t == TryFetchJson(o)
  IN IF t.threw THEN [resolved |-> TRUE, value |-> mockProductsByCategory]
     ELSE [resolved |-> TRUE, value |-> t.value]

FetchStoreInventories(o) ==
  LET t == TryFetchJson(o)
  IN IF t.threw THEN [resolved |-> TRUE, value |-> mockStoreInventories]
     ELSE [resolved |-> TRUE, value |-> t.value]

\* stores[i] || dflt
StoreOr(ss, i, dflt) == IF i <= Len(ss) /\ ss[i] # "" THEN ss[i] ELSE dflt

\* the mock optimization result: the second key is written after the first
MockOptimizedRoute(its, ss, cost) ==
  LET half == (Len(its) + 1) \div 2
      first == StoreOr(ss, 1, "Walmart")
      second == StoreOr(ss, 2, "Target")
  IN [Plan |-> [k \in {first, second} |->
                  IF k = second THEN SubSeq(its, half + 1, Len(its))
                  ELSE SubSeq(its, 1, half)],
      Cost |-> cost]

\* optimizeShoppingRoute(items, stores); cost is what Math.random() yields if
\* the mock is built
OptimizeShoppingRoute(its, ss, o, cost) ==
  LET t == TryFetchJson(o)
  IN IF t.threw
     THEN [resolved |-> TRUE, value |-> MockOptimizedRoute(its, ss, cost)]
     ELSE [resolved |-> TRUE, value |-> t.value]

ToastLoadFailed ==
  [title |-> "Error", variant |-> "destructive",
   description |-> "Failed to load stores and products"]
ToastNoItems ==
  [title |-> "No Items", variant |-> "destructive",
   description |-> "Please add items to your grocery list first"]
ToastNoStoresSelected ==
  [title |-> "No Stores Selected", variant |-> "destructive",
   description |-> "Please select at least one store"]
ToastOptimizationFailed ==
  [title |-> "Optimization Failed", variant |-> "destructive",
   description |-> "Could not optimize your shopping route. Please try again."]
\* description: `Found optimal route with total cost $${result.Cost.toFixed(2)}`
ToastRouteOptimized(cost) ==
  [title |-> "Route Optimized", variant |-> "default", cost |-> cost]

\* item lists addItem can have built: trimmed, not empty, no name twice
SelectItemLists == { <<>>, <<"Milk">>, <<"Milk", "Eggs", "Bread">> }

\* the mount effect's loadData, once both fetches have ended
loadDataSettles(oStores, oProducts) ==
  /\ app = "select"
  /\ loading
  /\ loading' = FALSE
  /\ LET fs == FetchStores(oStores)
         fp == FetchProducts(oProducts)
     IN /\ fetched' = << [fn |-> "fetchStores", outcome |-> oStores,
                          result |-> fs],
                         [fn |-> "fetchProducts", outcome |-> oProducts,
                          result |-> fp] >>
        /\ IF fs.resolved /\ fp.resolved
           THEN /\ stores' = fs.value
                /\ products' = fp.value
                /\ toasts' = <<>>
           ELSE /\ toasts' = <<ToastLoadFailed>>
                /\ UNCHANGED <<protoVars, inFlight, stores, products>>
  /\ UNCHANGED <<protoVars, inFlight, app, groceryList, radius, maxStores, route, isOptimizing,
                 location, call, observed, newItem, now, selectedStores>>

\* click on the checkbox of the i-th store listed
handleStoreSelection(i) ==
  /\ app = "select"
  /\ i \in DOMAIN stores
  /\ LET storeName == stores[i].name
         checked == ~(\E j \in DOMAIN selectedStores :
                        selectedStores[j] = storeName)
     IN selectedStores' =
          IF checked THEN Append(selectedStores, storeName)
          ELSE SelectSeq(selectedStores, LAMBDA n : n # storeName)
  /\ toasts' = <<>>
  /\ fetched' = NoFetch
  /\ UNCHANGED <<protoVars, inFlight, app, groceryList, radius, maxStores, route, isOptimizing,
                 stores, location, call, observed, newItem, now, products,
                 loading>>

\* the "Optimize Shopping Route" button is disabled while this is false
OptimizeSelectEnabled ==
  ~isOptimizing /\ Len(groceryList) # 0 /\ Len(selectedStores) # 0

\* click on "Optimize Shopping Route": optimizeRoute up to its await
optimizeRouteSelectClick ==
  /\ app = "select"
  /\ OptimizeSelectEnabled
  /\ IF Len(groceryList) = 0
     THEN /\ toasts' = <<ToastNoItems>>
          /\ UNCHANGED <<inFlight, isOptimizing, call>>
     ELSE IF Len(selectedStores) = 0
     THEN /\ toasts' = <<ToastNoStoresSelected>>
          /\ UNCHANGED <<inFlight, isOptimizing, call>>
     ELSE /\ toasts' = <<>>
          /\ isOptimizing' = TRUE
          /\ call' = [status |-> "pending", items |-> groceryList,
                      stores |-> selectedStores]
          /\ inFlight' = Append(inFlight, call')
  /\ fetched' = NoFetch
  /\ UNCHANGED <<protoVars, app, groceryList, radius, maxStores, route, stores, location,
                 observed, newItem, now, selectedStores, products, loading>>

\* the rest of optimizeRoute once optimizeShoppingRoute has settled
\* (of one of the runs in flight)
optimizeShoppingRouteSettles(o, cost) ==
  /\ app = "select"
  /\ \E i \in DOMAIN inFlight :
       /\ inFlight' = RemoveAt(inFlight, i)
       /\ LET c == inFlight[i]
              res == OptimizeShoppingRoute(c.items, c.stores, o, cost)
          IN /\ fetched' = << [fn |-> "optimizeShoppingRoute", outcome |-> o,
                               items |-> c.items, stores |-> c.stores,
                               result |-> res] >>
             /\ IF res.resolved
                THEN /\ route' = res.value
                     /\ toasts' = <<ToastRouteOptimized(res.value.Cost)>>
                ELSE /\ route' = route
                     /\ toasts' = <<ToastOptimizationFailed>>
  /\ isOptimizing' = FALSE
  /\ call' = NoCall
  /\ UNCHANGED <<protoVars, app, groceryList, radius, maxStores, stores, location,
                 observed, newItem, now, selectedStores, products, loading>>

\* a call of one of the two data functions no component calls (made while
\* the component's own data is loading: the result does not depend on when)
callDataFunction(fn, o) ==
  /\ app = "select"
  /\ loading
  /\ \/ /\ fn = "fetchProductsByCategory"
        /\ o \in DataOutcomes(ProductsByCategoryBodies)
        /\ fetched' = << [fn |-> fn, outcome |-> o,
                          result |-> FetchProductsByCategory(o)] >>
     \/ /\ fn = "fetchStoreInventories"
        /\ o \in DataOutcomes(StoreInventoriesBodies)
        /\ fetched' = << [fn |-> fn, outcome |-> o,
                          result |-> FetchStoreInventories(o)] >>
  /\ UNCHANGED <<protoVars, inFlight, app, groceryList, radius, maxStores, route, toasts,
                 isOptimizing, stores, location, call, observed, newItem, now,
                 selectedStores, products, loading>>

InitSelect ==
  /\ app = "select"
  /\ groceryList \in SelectItemLists
  /\ newItem = <<>>
  /\ now = 1
  /\ radius = 5
  /\ maxStores = 3
  /\ route = NoRoute
  /\ toasts = <<>>
  /\ isOptimizing = FALSE
  /\ stores = <<>>
  /\ location = NoLocation
  /\ call = NoCall
  /\ observed = NoRun
  /\ selectedStores = <<>>
  /\ products = <<>>
  /\ loading = TRUE
  /\ fetched = NoFetch
  /\ InitProto

NextSelect ==
  \/ \E o1 \in DataOutcomes(StoresBodies), o2 \in DataOutcomes(ProductsBodies) :
       loadDataSettles(o1, o2)
  \/ \E i \in 1..Len(mockStores) : handleStoreSelection(i)
  \/ optimizeRouteSelectClick
  \/ \E o \in DataOutcomes(OptimizedRouteBodies), c \in MockCosts :
       optimizeShoppingRouteSettles(o, c)
  \/ \E fn \in {"fetchProductsByCategory", "fetchStoreInventories"} :
       \E o \in DataOutcomes(ProductsByCategoryBodies)
                 \cup DataOutcomes(StoreInventoriesBodies) :
         callDataFunction(fn, o)

SpecSelect == InitSelect /\ [][NextSelect]_vars

----------------------------------------------------------------------------
\* The remote-backed component's store loading: the effect that calls
\* loadNearbyStores whenever latitude, longitude or radius has changed, and
\* apiService.getNearbyStores.  Here the stores carry the latitude and
\* longitude the fallback list derives from the position (in hundredths of a
\* degree).

\* Most getNearbyStores calls the model lets the effect issue.
MaxNearbyCalls == 3

There == [latitude |-> 41, longitude |-> 75]
Locations == {Here, There}

\* the sampleStores of loadNearbyStores' catch block, built from the latitude
\* and longitude the call captured
SampleStoresAt(loc) ==
  << [id |-> 1, name |-> "SuperMart", distance |-> 21,
      latitude |-> 100 * loc.latitude + 1,
      longitude |-> 100 * loc.longitude + 1,
      items |-> remoteSampleStores[1].items],
     [id |-> 2, name |-> "Fresh Foods", distance |-> 32,
      latitude |-> 100 * loc.latitude - 1,
      longitude |-> 100 * loc.longitude - 1,
      items |-> remoteSampleStores[2].items] >>

\* bodies the /stores/nearby endpoint may answer with
NearbyBodies ==
  { << >>,
    << [id |-> 12, name |-> "Corner Shop", distance |-> 10,
        latitude |-> 4001, longitude |-> 7402,
        items |-> [milk |-> [price |-> 450, available |-> TRUE]]] >> }

ToastNearbyFailed ==
  [title |-> "Error", variant |-> "destructive",
   description |-> "Failed to load nearby stores. Using fallback data."]

\* apiService.getNearbyStores: resolves with the parsed body of an ok
\* response, and throws again whatever its try block threw
GetNearbyStores(o) ==
  LET t == TryFetchJson(o)
  IN IF t.threw THEN [resolved |-> FALSE, value |-> NoBody]
     ELSE [resolved |-> TRUE, value |-> t.value]

\* loadNearbyStores after its await: the stores it sets and the toast
LoadNearbyStores(c, o) ==
  LET res == GetNearbyStores(o)
  IN IF res.resolved
     THEN [stores |-> res.value, toasts |-> <<>>]
     ELSE [stores |-> SampleStoresAt(c.location),
           toasts |-> <<ToastNearbyFailed>>]

\* the effect after a render with this radius and position: loadNearbyStores
\* up to its await, when one of the dependencies has changed
NearbyEffect(r, loc) ==
  IF (r # radius \/ loc # location) /\ loc # NoLocation
  THEN Append(nearbyCalls, [status |-> "pending", radius |-> r,
                            location |-> loc, stores |-> NoBody])
  ELSE nearbyCalls

\* onChange of the remote component's radius input
setRadiusRemote(text) ==
  /\ app = "remote"
  /\ radius' = ParseIntOr(text, 5)
  /\ nearbyCalls' = NearbyEffect(radius', location)
  /\ Len(nearbyCalls') <= MaxNearbyCalls
  /\ toasts' = <<>>
  /\ UNCHANGED <<app, groceryList, maxStores, route, isOptimizing, stores,
                 location, call, observed, formVars, inFlight, quantities,
                 address, geoCalls, plan, totalCost, totalDistance, status,
                 error, itemsInput>>

\* useGeolocation reports a position
positionFound(loc) ==
  /\ app = "remote"
  /\ location' = loc
  /\ nearbyCalls' = NearbyEffect(radius, location')
  /\ Len(nearbyCalls') <= MaxNearbyCalls
  /\ toasts' = <<>>
  /\ UNCHANGED <<app, groceryList, radius, maxStores, route, isOptimizing,
                 stores, call, observed, formVars, inFlight, quantities,
                 address, geoCalls, plan, totalCost, totalDistance, status,
                 error, itemsInput>>

\* one of the pending getNearbyStores calls ends: the rest of
\* loadNearbyStores
getNearbyStoresSettles(o) ==
  /\ app = "remote"
  /\ \E i \in DOMAIN nearbyCalls :
       /\ nearbyCalls[i].status = "pending"
       /\ LET run == LoadNearbyStores(nearbyCalls[i], o)
          IN /\ stores' = run.stores
             /\ toasts' = run.toasts
             /\ nearbyCalls' = [nearbyCalls EXCEPT ![i].status = "settled",
                                                   ![i].stores = run.stores]
  /\ UNCHANGED <<app, groceryList, radius, maxStores, route, isOptimizing,
                 location, call, observed, formVars, inFlight, quantities,
                 address, geoCalls, plan, totalCost, totalDistance, status,
                 error, itemsInput>>

\* the component right after it was mounted, the position not known yet
InitNearby ==
  /\ app = "remote"
  /\ groceryList = <<>>
  /\ radius = 5
  /\ maxStores = 3
  /\ route = NoRoute
  /\ stores = <<>>
  /\ location = NoLocation
  /\ InitRest
  /\ observed = NotObserving

NextNearby ==
  \/ \E t \in RadiusTexts : setRadiusRemote(t)
  \/ \E loc \in Locations : positionFound(loc)
  \/ \E o \in DataOutcomes(NearbyBodies) : getNearbyStoresSettles(o)

SpecNearby == InitNearby /\ [][NextNearby]_vars

----------------------------------------------------------------------------
\* The product/quantity App (src/unnamed/part_001:442-664).  call is the
\* fetch of the mount effect, location its { lat, lon } or null, inFlight its
\* /api/optimize requests, each the payload posted.  A typed text is a
\* sequence of one-character strings.

\* Most getCurrentPosition calls the model lets wait for their callback.
MaxGeoCalls == 2

Position == [lat |-> 40, lon |-> 74]

\* bodies /api/products may answer with
ProductListBodies ==
  { << [id |-> 1, name |-> "Milk"], [id |-> 2, name |-> "Eggs"] >> }
ProductIds == {1, 2}

\* bodies /api/optimize may answer with (PlanResponse); cost in cents
PlanBodies ==
  { [plan |-> << [store |-> "Aldi",
                  items |-> <<[item |-> "Milk", quantity |-> 2]>>] >>,
     cost |-> 798, status |-> "Optimal", distance |-> 1200],
    [plan |-> << >>, cost |-> 0, status |-> "Infeasible", distance |-> 0] }

\* texts typed into a Qty input (a number input yields '' or a numeral) and
\* into the address input
QtyTexts == { <<>>, <<"2">>, <<"-", "1">> }
AddressTexts == { <<>>, <<" ">>, <<"5", " ", "E", "l", "m">>, <<" ", "9">> }

\* Number(text) for '' and for integer numerals
NumberOf(t) == IF t = <<>> THEN 0 ELSE ParseInt(t).v

\* Math.max(0, n)
AtLeastZero(n) == IF n < 0 THEN 0 ELSE n

\* the mount effect's fetch ends: res.json() whatever the status, setProducts,
\* or the catch
productsFetchSettles(o) ==
  /\ app = "product"
  /\ call = [status |-> "pending", fn |-> "products"]
  /\ call' = NoCall
  /\ IF o.kind = "response" /\ o.parses
     THEN /\ products' = o.body
          /\ error' = error
     ELSE /\ products' = products
          /\ error' = Some("Failed to load products")
  /\ UNCHANGED <<app, groceryList, radius, maxStores, route, toasts,
                 isOptimizing, stores, location, observed, newItem, now,
                 selectedStores, loading, fetched, inFlight, nearbyCalls,
                 quantities, address, geoCalls, plan, totalCost,
                 totalDistance, status, itemsInput>>

\* onChange of the Qty input of the product with this id
setQuantity(id, text) ==
  /\ app = "product"
  /\ \E i \in DOMAIN products : products[i].id = id
  /\ quantities' = [p \in DOMAIN quantities \cup {id} |->
                      IF p = id THEN AtLeastZero(NumberOf(text))
                      ELSE quantities[p]]
  /\ UNCHANGED <<app, groceryList, radius, maxStores, route, toasts,
                 isOptimizing, stores, location, call, observed, formVars,
                 inFlight, nearbyCalls, address, geoCalls, plan, totalCost,
                 totalDistance, status, error, itemsInput>>

\* onChange of the address input, which is disabled while location is set
setAddress(text) ==
  /\ app = "product"
  /\ location = Null
  /\ address' = text
  /\ location' = Null
  /\ UNCHANGED <<app, groceryList, radius, maxStores, route, toasts,
                 isOptimizing, stores, call, observed, formVars, inFlight,
                 nearbyCalls, quantities, geoCalls, plan, totalCost,
                 totalDistance, status, error, itemsInput>>

\* click on "Use My Location", in a browser with or without geolocation
handleUseLocation(supported) ==
  /\ app = "product"
  /\ IF ~supported
     THEN /\ error' = Some("Geolocation is not supported by your browser")
          /\ geoCalls' = geoCalls
     ELSE /\ geoCalls < MaxGeoCalls
          /\ geoCalls' = geoCalls + 1
          /\ error' = error
  /\ UNCHANGED <<app, groceryList, radius, maxStores, route, toasts,
                 isOptimizing, stores, location, call, observed, formVars,
                 inFlight, nearbyCalls, quantities, address, plan, totalCost,
                 totalDistance, status, itemsInput>>

\* the success callback leaves the address as it is
PositionCallbackKeepsAddress(found, old) ==
  IF found
  THEN [location |-> Position, address |-> old.address, error |-> Null]
  ELSE [location |-> old.location, address |-> old.address,
        error |-> Some("Unable to retrieve your location")]

\* the two callbacks handed to getCurrentPosition
PositionCallback(found, old) ==
  IF found
  THEN [location |-> Position, address |-> <<>>, error |-> Null]
  ELSE [location |-> old.location, address |-> old.address,
        error |-> Some("Unable to retrieve your location")]

\* one getCurrentPosition call calls back
getCurrentPositionCallsBack(found) ==
  /\ app = "product"
  /\ geoCalls > 0
  /\ geoCalls' = geoCalls - 1
  /\ LET run == PositionCallback(found, [location |-> location,
                                         address |-> address])
     IN /\ location' = run.location
        /\ address' = run.address
        /\ error' = run.error
  /\ UNCHANGED <<app, groceryList, radius, maxStores, route, toasts,
                 isOptimizing, stores, call, observed, formVars, inFlight,
                 nearbyCalls, quantities, plan, totalCost, totalDistance,
                 status, itemsInput>>

\* Object.entries(quantities) mapped and filtered: the ids ascending
RECURSIVE ItemsOf(_, _)
ItemsOf(q, ids) ==
  IF ids = {} THEN <<>>
  ELSE LET id == CHOOSE x \in ids : \A y \in ids : x <= y
           rest == ItemsOf(q, ids \ {id})
       IN IF q[id] > 0
          THEN <<[product_id |-> id, quantity |-> q[id]]>> \o rest
          ELSE rest

\* the payload handleOptimize posts
Payload(items, loc, addr) ==
  IF loc # Null THEN [items |-> items, location |-> loc]
  ELSE [items |-> items, address |-> Trim(addr)]

\* the "Optimize Route" button is disabled while this is false
HandleOptimizeEnabled == ~loading

\* click on "Optimize Route": handleOptimize up to its await
handleOptimizeClick ==
  /\ app = "product"
  /\ HandleOptimizeEnabled
  /\ LET items == ItemsOf(quantities, DOMAIN quantities)
     IN IF Len(items) = 0
        THEN /\ error' = Some("Please select at least one product and quantity")
             /\ UNCHANGED <<loading, inFlight>>
        ELSE IF location = Null /\ Trim(address) = <<>>
        THEN /\ error' =
                  Some("Please enter your address or use your current location")
             /\ UNCHANGED <<loading, inFlight>>
        ELSE /\ error' = Null
             /\ loading' = TRUE
             /\ inFlight' = Append(inFlight, Payload(items, location, address))
  /\ UNCHANGED <<app, groceryList, radius, maxStores, route, toasts,
                 isOptimizing, stores, location, call, observed, newItem, now,
                 selectedStores, products, fetched, nearbyCalls, quantities,
                 address, geoCalls, plan, totalCost, totalDistance, status,
                 itemsInput>>

\* how the fetch of /api/optimize ends: it rejects, or it yields a response
\* with an ok flag whose body parses as JSON or not
PlanOutcomes == DataOutcomes(PlanBodies)

\* the four are set from the body before response.ok is tested
HandleOptimizeSetsBeforeOkTest(o, old) ==
  IF o.kind = "network_error"
  THEN [old EXCEPT !.error = Some("Failed to fetch")]
  ELSE IF ~o.parses
  THEN [old EXCEPT !.error = Some("Unexpected token in JSON")]
  ELSE [plan |-> o.body.plan, totalCost |-> Some(o.body.cost),
        totalDistance |-> Some(o.body.distance),
        status |-> Some(o.body.status),
        error |-> IF o.ok THEN old.error ELSE Some("HTTP error")]

\* handleOptimize after its await: what the try block or the catch block
\* sets (err.message is never empty here)
HandleOptimize(o, old) ==
  IF o.kind = "network_error"
  THEN [old EXCEPT !.error = Some("Failed to fetch")]
  ELSE IF ~o.ok
  THEN [old EXCEPT !.error = Some("HTTP error")]
  ELSE IF ~o.parses
  THEN [old EXCEPT !.error = Some("Unexpected token in JSON")]
  ELSE [plan |-> o.body.plan, totalCost |-> Some(o.body.cost),
        totalDistance |-> Some(o.body.distance),
        status |-> Some(o.body.status),
        error |-> old.error]

\* setLoading(false) is at the end of the try block, not in a finally
handleOptimizeSettlesNoFinally(o) ==
  /\ app = "product"
  /\ \E i \in DOMAIN inFlight : inFlight' = RemoveAt(inFlight, i)
  /\ LET run == HandleOptimize(o, [plan |-> plan, totalCost |-> totalCost,
                                   totalDistance |-> totalDistance,
                                   status |-> status, error |-> error])
     IN /\ plan' = run.plan
        /\ totalCost' = run.totalCost
        /\ totalDistance' = run.totalDistance
        /\ status' = run.status
        /\ error' = run.error
  /\ loading' = (IF TryFetchJson(o).threw THEN loading ELSE FALSE)
  /\ UNCHANGED <<app, groceryList, radius, maxStores, route, toasts,
                 isOptimizing, stores, location, call, observed, newItem, now,
                 selectedStores, products, fetched, nearbyCalls, quantities,
                 address, geoCalls, itemsInput>>

\* one of the requests in flight ends: the rest of handleOptimize
handleOptimizeSettles(o) ==
  /\ app = "product"
  /\ \E i \in DOMAIN inFlight : inFlight' = RemoveAt(inFlight, i)
  /\ LET run == HandleOptimize(o, [plan |-> plan, totalCost |-> totalCost,
                                   totalDistance |-> totalDistance,
                                   status |-> status, error |-> error])
     IN /\ plan' = run.plan
        /\ totalCost' = run.totalCost
        /\ totalDistance' = run.totalDistance
        /\ status' = run.status
        /\ error' = run.error
  /\ loading' = FALSE
  /\ UNCHANGED <<app, groceryList, radius, maxStores, route, toasts,
                 isOptimizing, stores, location, call, observed, newItem, now,
                 selectedStores, products, fetched, nearbyCalls, quantities,
                 address, geoCalls, itemsInput>>

\* the App right after it was mounted
InitProduct ==
  /\ app = "product"
  /\ groceryList = <<>>
  /\ radius = 5
  /\ maxStores = 3
  /\ route = NoRoute
  /\ toasts = <<>>
  /\ isOptimizing = FALSE
  /\ stores = <<>>
  /\ location = Null
  /\ call = [status |-> "pending", fn |-> "products"]
  /\ observed = NotObserving
  /\ newItem = EmptyForm
  /\ now = 1
  /\ selectedStores = <<>>
  /\ products = <<>>
  /\ loading = FALSE
  /\ fetched = NoFetch
  /\ InitProto

NextProduct ==
  \/ \E o \in DataOutcomes(ProductListBodies) : productsFetchSettles(o)
  \/ \E id \in ProductIds, t \in QtyTexts : setQuantity(id, t)
  \/ \E t \in AddressTexts : setAddress(t)
  \/ \E supported \in BOOLEAN : handleUseLocation(supported)
  \/ \E found \in BOOLEAN : getCurrentPositionCallsBack(found)
  \/ handleOptimizeClick
  \/ \E o \in PlanOutcomes : handleOptimizeSettles(o)

SpecProduct == InitProduct /\ [][NextProduct]_vars

----------------------------------------------------------------------------
\* The comma-separated-items App (src/unnamed/part_002).  call is the fetch
\* of the mount effect, inFlight its /optimize requests, each the body posted.

\* texts typed into the items input
ItemsTexts ==
  { <<>>, <<"m">>, <<",", " ">>, <<"m", ",", " ", "e", " ", ",">> }

\* String.prototype.split(','), the piece being read given
RECURSIVE SplitComma(_, _)
SplitComma(t, piece) ==
  IF t = <<>> THEN <<piece>>
  ELSE IF t[1] = "," THEN <<piece>> \o SplitComma(Tail(t), <<>>)
  ELSE SplitComma(Tail(t), Append(piece, t[1]))

\* itemsInput.split(',').map(s => s.trim()).filter(Boolean)
ItemsTyped(t) ==
  LET pieces == SplitComma(t, <<>>)
      trimmed == [i \in DOMAIN pieces |-> Trim(pieces[i])]
  IN SelectSeq(trimmed, LAMBDA s : s # <<>>)

\* bodies /stores may answer with (Store[])
CommaStoresBodies ==
  { << [id |-> 1, name |-> "Aldi", lat |-> 40, lon |-> 74] >> }

\* bodies /optimize may answer with: the { data: { status, plan } } that
\* handleOptimize reads, and the declared PlanResponse, which has no data
CommaPlanBodies ==
  { [data |-> [status |-> "success",
               plan |-> << [store_name |-> "Aldi", item_name |-> "m"] >>]],
    [data |-> [status |-> "success",
               plan |-> << [store_name |-> "Aldi", item_name |-> "m"],
                           [store_name |-> "Lidl", item_name |-> "e"] >>]],
    [data |-> [status |-> "infeasible", plan |-> << >>]],
    [plan |-> << [store_name |-> "Aldi", item_name |-> "m"] >>,
     total_cost |-> 299, status |-> "success"] }

CommaPlanOutcomes == DataOutcomes(CommaPlanBodies)

\* the mount effect's fetch ends: res.json() then setStores, and nothing is
\* done if one of them rejects
storesFetchSettles(o) ==
  /\ app = "comma"
  /\ call = [status |-> "pending", fn |-> "stores"]
  /\ call' = NoCall
  /\ stores' = IF o.kind = "response" /\ o.parses THEN o.body ELSE stores
  /\ UNCHANGED <<app, groceryList, radius, maxStores, route, toasts,
                 isOptimizing, location, observed, formVars, inFlight,
                 protoVars>>

\* onChange of the items input
setItemsInput(text) ==
  /\ app = "comma"
  /\ itemsInput' = text
  /\ UNCHANGED <<app, groceryList, radius, maxStores, route, toasts,
                 isOptimizing, stores, location, call, observed, formVars,
                 inFlight, nearbyCalls, quantities, address, geoCalls, plan,
                 totalCost, totalDistance, status, error>>

\* the "Optimize Route" button is disabled while this is false
HandleOptimizeCommaEnabled == ~loading

\* click on "Optimize Route": handleOptimize up to its await
handleOptimizeCommaClick ==
  /\ app = "comma"
  /\ HandleOptimizeCommaEnabled
  /\ loading' = TRUE
  /\ error' = Null
  /\ inFlight' = Append(inFlight, [items |-> ItemsTyped(itemsInput)])
  /\ UNCHANGED <<app, groceryList, radius, maxStores, route, toasts,
                 isOptimizing, stores, location, call, observed, newItem, now,
                 selectedStores, products, fetched, nearbyCalls, quantities,
                 address, geoCalls, plan, totalCost, totalDistance, status,
                 itemsInput>>

\* the plan of the body is stored whatever its status
HandleOptimizeCommaAnyStatus(o, old) ==
  IF o.kind = "network_error" \/ ~o.parses
  THEN [plan |-> old.plan, error |-> Some(<<"Error optimizing route">>)]
  ELSE IF "data" \notin DOMAIN o.body
  THEN [plan |-> old.plan, error |-> Some(<<"Error optimizing route">>)]
  ELSE [plan |-> o.body.data.plan, error |-> old.error]

\* handleOptimize after its await: response.ok is not looked at; reading
\* res.data.status throws when the body has no data.  A message is the
\* sequence of the pieces of its template.
HandleOptimizeComma(o, old) ==
  IF o.kind = "network_error" \/ ~o.parses
  THEN [plan |-> old.plan, error |-> Some(<<"Error optimizing route">>)]
  ELSE IF "data" \notin DOMAIN o.body
  THEN [plan |-> old.plan, error |-> Some(<<"Error optimizing route">>)]
  ELSE IF o.body.data.status = "success"
  THEN [plan |-> o.body.data.plan, error |-> old.error]
  ELSE [plan |-> old.plan,
        error |-> Some(<<"Optimization failed: ", o.body.data.status>>)]

\* one of the requests in flight ends: the rest of handleOptimize
handleOptimizeCommaSettles(o) ==
  /\ app = "comma"
  /\ \E i \in DOMAIN inFlight : inFlight' = RemoveAt(inFlight, i)
  /\ LET run == HandleOptimizeComma(o, [plan |-> plan, error |-> error])
     IN /\ plan' = run.plan
        /\ error' = run.error
  /\ loading' = FALSE
  /\ UNCHANGED <<app, groceryList, radius, maxStores, route, toasts,
                 isOptimizing, stores, location, call, observed, newItem, now,
                 selectedStores, products, fetched, nearbyCalls, quantities,
                 address, geoCalls, totalCost, totalDistance, status,
                 itemsInput>>

\* the App right after it was mounted
InitComma ==
  /\ app = "comma"
  /\ groceryList = <<>>
  /\ radius = 5
  /\ maxStores = 3
  /\ route = NoRoute
  /\ toasts = <<>>
  /\ isOptimizing = FALSE
  /\ stores = <<>>
  /\ location = Null
  /\ call = [status |-> "pending", fn |-> "stores"]
  /\ observed = NotObserving
  /\ newItem = EmptyForm
  /\ now = 1
  /\ selectedStores = <<>>
  /\ products = <<>>
  /\ loading = FALSE
  /\ fetched = NoFetch
  /\ InitProto

NextComma ==
  \/ \E o \in DataOutcomes(CommaStoresBodies) : storesFetchSettles(o)
  \/ \E t \in ItemsTexts : setItemsInput(t)
  \/ handleOptimizeCommaClick
  \/ \E o \in CommaPlanOutcomes : handleOptimizeCommaSettles(o)

SpecComma == InitComma /\ [][NextComma]_vars

----------------------------------------------------------------------------
\* The item form of the store-selection component: newItem is its
\* newItemName, groceryList its items.  A name is a sequence of one-character
\* strings, as in the grocery-list form above.

\* description: `${newItem} added to your list`
ToastItemAdded(name) ==
  [title |-> "Item Added", variant |-> "default", item |-> name]
\* description: `${removedItem} removed from your list`
ToastItemRemoved(name) ==
  [title |-> "Item Removed", variant |-> "default", item |-> name]

\* Array.prototype.includes
Includes(s, e) == \E i \in DOMAIN s : s[i] = e

\* the test for a name already in the list left out
AddItemSelectNoIncludes(its, name) ==
  IF Trim(name) # <<>>
  THEN [items |-> Append(its, Trim(name)), newItemName |-> <<>>,
        toasts |-> <<ToastItemAdded(Trim(name))>>]
  ELSE [items |-> its, newItemName |-> name, toasts |-> <<>>]

\* what addItem does: the items and the name it sets, the toast it raises
AddItemSelect(its, name) ==
  IF Trim(name) # <<>> /\ ~Includes(its, Trim(name))
  THEN [items |-> Append(its, Trim(name)), newItemName |-> <<>>,
        toasts |-> <<ToastItemAdded(Trim(name))>>]
  ELSE [items |-> its, newItemName |-> name, toasts |-> <<>>]

\* onChange of the item input
setNewItemNameSelect(text) ==
  /\ app = "select"
  /\ newItem' = text
  /\ toasts' = <<>>
  /\ UNCHANGED <<app, groceryList, radius, maxStores, route, isOptimizing,
                 stores, location, call, observed, now, selectedStores,
                 products, loading, fetched, inFlight, protoVars>>

\* click on the add button, or Enter in the item input
addItemSelect ==
  /\ app = "select"
  /\ LET run == AddItemSelect(groceryList, newItem)
     IN /\ Len(run.items) <= MaxItems
        /\ groceryList' = run.items
        /\ newItem' = run.newItemName
        /\ toasts' = run.toasts
  /\ UNCHANGED <<app, radius, maxStores, route, isOptimizing, stores,
                 location, call, observed, now, selectedStores, products,
                 loading, fetched, inFlight, protoVars>>

\* click on the X of the item listed at this index
removeItemSelect(index) ==
  /\ app = "select"
  /\ index \in DOMAIN groceryList
  /\ groceryList' = RemoveAt(groceryList, index)
  /\ toasts' = <<ToastItemRemoved(groceryList[index])>>
  /\ UNCHANGED <<app, radius, maxStores, route, isOptimizing, stores,
                 location, call, observed, newItem, now, selectedStores,
                 products, loading, fetched, inFlight, protoVars>>

\* the component as mounted: no item yet, the stores and products loading
InitSelectItems ==
  /\ InitSelect
  /\ groceryList = <<>>

NextSelectItems ==
  \/ \E o1 \in DataOutcomes(StoresBodies), o2 \in DataOutcomes(ProductsBodies) :
       loadDataSettles(o1, o2)
  \/ \E t \in NameTexts : setNewItemNameSelect(t)
  \/ addItemSelect
  \/ \E index \in 1..MaxItems : removeItemSelect(index)

SpecSelectItems == InitSelectItems /\ [][NextSelectItems]_vars

----------------------------------------------------------------------------
\* The four components that optimize through a remote call, each with all
\* its handlers, and every request issued taken to end: a fetch resolves or
\* rejects in the end.  The store-selection component starts with one item
\* in its list.

InitOptimize ==
  \/ InitRemote /\ InitRest /\ observed = NotObserving
  \/ InitSelect /\ groceryList = <<"Milk">>
  \/ InitProduct
  \/ InitComma

NextRemote ==
  \/ optimizeRouteClick
  \/ \E o \in FetchOutcomes : optimizeRouteSettles(o)
  \/ \E t \in MaxStoresTexts : setMaxStoresRemote(t)

NextOptimize ==
  \/ NextRemote
  \/ NextSelect
  \/ NextProduct
  \/ NextComma

RequestsEnd ==
  /\ WF_vars(\E o \in FetchOutcomes : optimizeRouteSettles(o))
  /\ WF_vars(\E o \in DataOutcomes(OptimizedRouteBodies), c \in MockCosts :
               optimizeShoppingRouteSettles(o, c))
  /\ WF_vars(\E o \in PlanOutcomes : handleOptimizeSettles(o))
  /\ WF_vars(\E o \in CommaPlanOutcomes : handleOptimizeCommaSettles(o))

SpecOptimize == InitOptimize /\ [][NextOptimize]_vars /\ RequestsEnd

----------------------------------------------------------------------------
\* Vocabulary of the properties.  optimizeRoute is the only handler of the
\* sample-store component that raises toasts, and it does not change its own
\* inputs, so a state whose toasts are not empty is the state right after a
\* run on the groceryList, radius and maxStores of that state.

LocalRan == app = "local" /\ toasts # <<>>
LocalStored == LocalRan /\ toasts[1].title = "Route optimized!"
\* the catch block stored its fallback route
FallbackStored == app = "remote" /\ toasts = <<ToastApiError>>

\* the outcomes of optimize that are errors: empty list, location missing, no
\* store in radius
OptimizeErrors == {ToastEmptyList, ToastLocationRequired, ToastNoStores}
ReportsError(ts) == \E i \in DOMAIN ts : ts[i] \in OptimizeErrors

NoneInRadius(ss, r) == \A i \in DOMAIN ss : ss[i].distance > 10 * r
SomeInRadius(ss, r) == \E i \in DOMAIN ss : ss[i].distance <= 10 * r

\* the fetch ended in an ok response with a JSON body
RemoteSucceeded(o) == o.kind = "response" /\ o.ok /\ o.parses

\* no store within the radius stocks the item as available
Unfulfillable(item, r) ==
  \A i \in DOMAIN sampleStores :
    sampleStores[i].distance <= 10 * r =>
      ~(item.name \in DOMAIN sampleStores[i].items
        /\ sampleStores[i].items[item.name].available)

\* the buckets of the run on the current inputs
Buckets ==
  LET avail == FilterInRadius(sampleStores, radius)
  IN Greedy(groceryList, ItemStoreMaps(groceryList, avail),
            Len(groceryList)).storeItemMap

\* the request is one of the specified data model: quantities >= 1 and
\* maxStores >= 1
RequestOfDataModel ==
  /\ maxStores >= 1
  /\ \A i \in DOMAIN groceryList : groceryList[i].quantity >= 1

RECURSIVE SumCosts(_, _)
SumCosts(m, ids) ==
  IF ids = {} THEN 0
  ELSE LET k == CHOOSE x \in ids : TRUE
       IN m[k].cost + SumCosts(m, ids \ {k})

----------------------------------------------------------------------------
\* C1: the totalCost of a route of the local optimizer is >= 0 and is the sum
\* of the line costs of the items assigned to the stores kept by the
\* maxStores truncation; items of truncated-out stores are not counted.
\* (Stated on the requests of the data model, so that a violation is one of
\* the truncation alone.)
C1_TotalCostIsCostOfKeptStores ==
  (LocalStored /\ RequestOfDataModel) =>
    LET kept == {route.stores[i].id : i \in DOMAIN route.stores}
    IN /\ route.totalCost >= 0
       /\ route.totalCost = SumCosts(Buckets, kept \cap DOMAIN Buckets)

\* C2: with a non-empty list and no candidate store within the radius, a run
\* of the local optimizer, and of the fallback after a failed remote call,
\* ends in the no-stores error and stores no route.
C2_NoStoreInRadiusIsAnError ==
  [][ /\ (/\ app = "local" /\ toasts' # <<>>
          /\ groceryList # <<>> /\ NoneInRadius(sampleStores, radius))
         => (toasts' = <<ToastNoStores>> /\ route' = route)
      /\ (/\ app = "remote" /\ call.status = "pending" /\ call'.status = "settled"
          /\ ~RemoteSucceeded(call'.outcome)
          /\ call.items # <<>> /\ NoneInRadius(call.stores, call.radius))
         => (/\ toasts' # <<>>
             /\ toasts'[Len(toasts')] = ToastNoStores
             /\ route' = route) ]_vars

\* a local run ended in the no-stores error and kept the route stored before
C2_Witness ==
  /\ app = "local" /\ toasts = <<ToastNoStores>>
  /\ groceryList # <<>> /\ route # NoRoute

C6_UnfulfillableItemIsSkipped ==
  (LocalRan /\ groceryList # <<>> /\ SomeInRadius(sampleStores, radius)) =>
    LET avail == FilterInRadius(sampleStores, radius)
        rest == SelectSeq(groceryList, LAMBDA it : ~Unfulfillable(it, radius))
    IN /\ LocalStored
       /\ route # NoRoute
       /\ \A i \in DOMAIN groceryList :
            Unfulfillable(groceryList[i], radius) =>
              \A k \in DOMAIN Buckets : \A j \in DOMAIN Buckets[k].items :
                Buckets[k].items[j].name # groceryList[i].name
       /\ route.totalCost =
            Greedy(rest, ItemStoreMaps(rest, avail), Len(rest)).totalCost

\* a route was stored for a list of one stocked and one unstocked item
C6_Witness ==
  /\ LocalStored
  /\ Len(groceryList) = 2
  /\ Unfulfillable(groceryList[1], radius)
  /\ ~Unfulfillable(groceryList[2], radius)
  /\ Len(route.stores) = 1
  /\ route.totalCost > 0

\* C7: unfulfillable items add nothing to the savings baseline: when no item
\* of a non-empty list is stocked within the radius, savings is 0.
C7_AllUnfulfillableSavingsZero ==
  (/\ LocalStored
   /\ RequestOfDataModel
   /\ \A i \in DOMAIN groceryList : Unfulfillable(groceryList[i], radius))
  => route.savings = Fin(0)

\* C8: a maxStores that is 0 or negative yields a route with no store.
C8_NonPositiveMaxStoresSelectsNothing ==
  /\ (/\ LocalStored /\ maxStores <= 0
      /\ \A i \in DOMAIN groceryList : groceryList[i].quantity >= 1)
     => route.stores = <<>>
  /\ (FallbackStored /\ call.maxStores <= 0) => route.stores = <<>>

CountIn(s, e) == Cardinality({i \in DOMAIN s : s[i] = e})

RECURSIVE SumOver(_, _)
SumOver(f, S) ==
  IF S = {} THEN 0
  ELSE LET k == CHOOSE x \in S : TRUE IN f[k] + SumOver(f, S \ {k})

\* C11: before the truncation every grocery-list entry that some store within
\* the radius stocks is in exactly one store's bucket and an entry that none
\* stocks is in no bucket, so the bucket sizes add up to the number of
\* fulfillable entries.
C11_EveryFulfillableEntryInOneBucket ==
  LocalStored =>
    LET B == Buckets
        size == [k \in DOMAIN B |-> Len(B[k].items)]
        fulfillable == {i \in DOMAIN groceryList :
                          ~Unfulfillable(groceryList[i], radius)}
    IN /\ \A i \in DOMAIN groceryList :
            LET e == groceryList[i]
                placed == [k \in DOMAIN B |-> CountIn(B[k].items, e)]
            IN SumOver(placed, DOMAIN B) =
                 IF Unfulfillable(e, radius) THEN 0 ELSE CountIn(groceryList, e)
       /\ SumOver(size, DOMAIN B) = Cardinality(fulfillable)

\* two entries of one name and different quantities are both in the bucket
\* of one store
C11_Witness ==
  /\ LocalStored
  /\ Len(groceryList) = 2
  /\ groceryList[1].name = groceryList[2].name
  /\ groceryList[1].quantity # groceryList[2].quantity
  /\ ~Unfulfillable(groceryList[1], radius)
  /\ \E k \in DOMAIN Buckets : Len(Buckets[k].items) = 2

\* every entry has a quantity >= 1 and is stocked by a store within the radius
AllFulfillable ==
  /\ \A i \in DOMAIN groceryList : groceryList[i].quantity >= 1
  /\ \A i \in DOMAIN groceryList : ~Unfulfillable(groceryList[i], radius)

\* C12: savings of a stored route is never negative when every entry has a
\* quantity >= 1 and a store within the radius that stocks it, also for lists
\* with several entries of one name and different quantities.  (Stated on the
\* requests of the data model.)
C12_SavingsNotNegative ==
  (LocalStored /\ RequestOfDataModel /\ AllFulfillable) =>
    (route.savings.k = "fin" /\ route.savings.v >= 0)

\* price of the bucket's store times the entry's own quantity, added up over
\* the entries of the bucket
RECURSIVE OwnLineCosts(_, _)
OwnLineCosts(store, items) ==
  IF items = <<>> THEN 0
  ELSE store.items[items[1].name].price * items[1].quantity
       + OwnLineCosts(store, Tail(items))

\* C14: every entry is charged the price of its store times its own quantity,
\* also when another entry of the list has the same name and a different
\* quantity: each bucket's cost, and the total over all buckets, is the sum
\* of these line costs.  (Stated on the requests of the data model.)
C14_EntryChargedOwnQuantity ==
  (LocalStored /\ RequestOfDataModel) =>
    LET B == Buckets
        own == [k \in DOMAIN B |-> OwnLineCosts(B[k].store, B[k].items)]
    IN /\ \A k \in DOMAIN B : B[k].cost = own[k]
       /\ route.totalCost = SumOver(own, DOMAIN B)

\* C17: the totalDistance of a route of the local optimizer or of the fallback
\* is the sum of the distances of exactly the stores the route lists.
C17_TotalDistanceIsSumOverRouteStores ==
  (LocalStored \/ FallbackStored) =>
    LET d == [i \in DOMAIN route.stores |-> route.stores[i].distance]
    IN route.totalDistance = SumOver(d, DOMAIN route.stores)

\* two stores received items, one was kept, and the distance is that store's
C17_Witness ==
  /\ LocalStored
  /\ Cardinality(DOMAIN Buckets) = 2
  /\ Len(route.stores) = 1
  /\ route.totalDistance = route.stores[1].distance
  /\ route.totalDistance > 0

\* the highest price of the entry's name among the stores within the radius
\* that stock it
MaxPriceInRadius(item, r) ==
  LET ps == {sampleStores[i].items[item.name].price :
               i \in {j \in DOMAIN sampleStores :
                        /\ sampleStores[j].distance <= 10 * r
                        /\ item.name \in DOMAIN sampleStores[j].items
                        /\ sampleStores[j].items[item.name].available}}
  IN CHOOSE p \in ps : \A q \in ps : q <= p

\* sum over the fulfillable entries of the highest price times the quantity
WorstCaseCost ==
  LET w == [i \in DOMAIN groceryList |->
              IF Unfulfillable(groceryList[i], radius) THEN 0
              ELSE MaxPriceInRadius(groceryList[i], radius)
                   * groceryList[i].quantity]
  IN SumOver(w, DOMAIN groceryList)

\* C18: savings is worstCaseCost - totalCost, where worstCaseCost adds up, over
\* the entries that a store within the radius stocks, the highest such price
\* times the entry's quantity, and totalCost is the one of the same route.
\* (Stated on the requests of the data model.)
C18_SavingsIsWorstCaseMinusTotal ==
  (LocalStored /\ RequestOfDataModel) =>
    route.savings = Fin(WorstCaseCost - route.totalCost)

\* the candidate stores in every order they can be supplied in
SupplyOrders ==
  {[i \in DOMAIN sampleStores |-> sampleStores[p[i]]] :
     p \in Permutations(DOMAIN sampleStores)}

\* store a comes before store b for the entry: line cost, then distance, then
\* id, ascending
ComesBefore(a, b, item) ==
  LET ca == a.items[item.name].price * item.quantity
      cb == b.items[item.name].price * item.quantity
  IN \/ ca < cb
     \/ ca = cb /\ a.distance < b.distance
     \/ ca = cb /\ a.distance = b.distance /\ a.id <= b.id

\* C15: every fulfillable entry is assigned to the store that is least, among
\* the stores within the radius that stock it, under the order (line cost,
\* then distance, then id, all ascending), in whatever order the candidate
\* stores are supplied.
C15_AssignedToLeastStore ==
  (LocalStored /\ maxStores >= 1) =>
    \A cand \in SupplyOrders :
      LET avail == FilterInRadius(cand, radius)
          maps == ItemStoreMaps(groceryList, avail)
      IN \A i \in DOMAIN groceryList :
           LET item == groceryList[i]
           IN ~Unfulfillable(item, radius) =>
                /\ maps[item.name] # <<>>
                /\ LET chosen == maps[item.name][1].store
                   IN \A j \in DOMAIN avail :
                        Available(avail[j], item.name) =>
                          ComesBefore(chosen, avail[j], item)

\* C16: the route lists, of the stores that received an item, the maxStores
\* nearest ones (equal distances by ascending id) in ascending order of
\* distance, and never a store that received no item.
C16_KeepsNearestMaxStores ==
  (LocalStored /\ \A q \in DOMAIN groceryList : groceryList[q].quantity >= 1) =>
    LET received == {Buckets[k].store : k \in DOMAIN Buckets}
        n == Cardinality(received)
        keep == IF maxStores <= 0 THEN 0
                ELSE IF maxStores < n THEN maxStores ELSE n
        Nearer(a, b) == \/ a.distance < b.distance
                        \/ a.distance = b.distance /\ a.id <= b.id
        listed == {route.stores[i] : i \in DOMAIN route.stores}
    IN /\ Len(route.stores) = keep
       /\ listed \subseteq received
       /\ Cardinality(listed) = Len(route.stores)
       /\ \A i, j \in DOMAIN route.stores :
            i < j => Nearer(route.stores[i], route.stores[j])
       /\ \A a \in listed : \A b \in received \ listed : Nearer(a, b)

\* C19: whatever is typed, added and removed, every entry of the grocery list
\* has an integer quantity >= 1.
C19_QuantitiesAtLeastOne ==
  \A i \in DOMAIN groceryList :
    groceryList[i].quantity \in Nat /\ groceryList[i].quantity >= 1

\* a is b with every upper-case letter replaced by its lower-case letter
IsLowerCased(a, b) ==
  /\ Len(a) = Len(b)
  /\ \A i \in DOMAIN b :
       /\ \A k \in DOMAIN UpperCase : b[i] = UpperCase[k] => a[i] = LowerCase[k]
       /\ (\A k \in DOMAIN UpperCase : b[i] # UpperCase[k]) => a[i] = b[i]

IsBlank(t) == \A i \in DOMAIN t : t[i] \in WhiteSpace

UpperCaseLetters == {UpperCase[k] : k \in DOMAIN UpperCase}

\* C20: addItem with an empty or blank name leaves the grocery list as it was
\* and reports an error; with any other name it appends exactly one entry,
\* whose name is the typed name in lower case; so no name in the list is
\* empty or has an upper-case letter.
C20_AddItemAppendsLowerCasedName ==
  [][ /\ addItem =>
           IF IsBlank(newItem.name)
           THEN /\ groceryList' = groceryList
                /\ toasts' # <<>>
                /\ toasts'[1].variant = "destructive"
           ELSE /\ Len(groceryList') = Len(groceryList) + 1
                /\ SubSeq(groceryList', 1, Len(groceryList)) = groceryList
                /\ IsLowerCased(groceryList'[Len(groceryList')].name,
                                newItem.name)
                /\ toasts' = <<>>
      /\ \A i \in DOMAIN groceryList' :
           /\ groceryList'[i].name # <<>>
           /\ \A j \in DOMAIN groceryList'[i].name :
                groceryList'[i].name[j] \notin UpperCaseLetters ]_vars

\* "Mi" was added as "mi", and then a blank name was refused
C20_Witness ==
  /\ Len(groceryList) = 1
  /\ groceryList[1].name = <<"m", "i">>
  /\ toasts = <<ToastEnterName>>
  /\ IsBlank(newItem.name) /\ newItem.name # <<>>

\* the fetch ended in an ok response with a JSON body
DataSucceeded(o) == o.kind = "response" /\ o.ok /\ o.parses

\* v is the built-in mock value of the data function called in f
IsMockOf(f, v) ==
  CASE f.fn = "fetchStores" -> v = mockStores
    [] f.fn = "fetchProducts" -> v = mockProducts
    [] f.fn = "fetchProductsByCategory" -> v = mockProductsByCategory
    [] f.fn = "fetchStoreInventories" -> v = mockStoreInventories
    [] f.fn = "optimizeShoppingRoute" ->
         /\ v.Cost >= 2500 /\ v.Cost < 7500
         /\ v = MockOptimizedRoute(f.items, f.stores, v.Cost)

----------------------------------------------------------------------------
\* C21: in the remote-backed component, once every nearby-store request
\* issued has completed, the stores list is what the request issued last (the
\* one for the latest radius and position) has yielded: its response, or its
\* sample fallback.
AllNearbyCallsSettled ==
  /\ nearbyCalls # <<>>
  /\ \A i \in DOMAIN nearbyCalls : nearbyCalls[i].status = "settled"

C21_StoresAreOfLatestRequest ==
  (app = "remote" /\ AllNearbyCallsSettled)
    => stores = nearbyCalls[Len(nearbyCalls)].stores

----------------------------------------------------------------------------
\* C26: in the product/quantity App a failed optimize request (network error,
\* or a response that is not ok) sets the error message and leaves plan,
\* totalCost, totalDistance and status as they were; the four change only on
\* a successful response, and then all four are set from its body.
RequestFailed(o) == o.kind = "network_error" \/ ~o.ok
RequestSucceeded(o) == o.kind = "response" /\ o.ok /\ o.parses

C26_FailedOptimizeKeepsPlan ==
  [][ /\ \A o \in PlanOutcomes :
           handleOptimizeSettles(o)
             => /\ RequestFailed(o)
                    => /\ error' # Null
                       /\ UNCHANGED <<plan, totalCost, totalDistance, status>>
                /\ RequestSucceeded(o)
                    => /\ plan' = o.body.plan
                       /\ totalCost' = Some(o.body.cost)
                       /\ totalDistance' = Some(o.body.distance)
                       /\ status' = Some(o.body.status)
      /\ (/\ app = "product"
          /\ <<plan, totalCost, totalDistance, status>>'
               # <<plan, totalCost, totalDistance, status>>)
           => \E o \in PlanOutcomes :
                RequestSucceeded(o) /\ handleOptimizeSettles(o) ]_vars

\* a request has failed after an earlier one had succeeded: the plan of the
\* earlier one is still shown, with the error
C26_Witness ==
  /\ app = "product"
  /\ error = Some("HTTP error")
  /\ plan # <<>>
  /\ status = Some("Optimal")

----------------------------------------------------------------------------
\* C27: in the product/quantity App, whatever the order of typing an address,
\* clicking "Use My Location" and the geolocation callbacks, location is set
\* only while address is empty, and every optimize request carries exactly
\* one of location and address.
C27_LocationOnlyWhileAddressEmpty ==
  app = "product"
    => /\ location # Null => address = <<>>
       /\ \A i \in DOMAIN inFlight :
            ("location" \in DOMAIN inFlight[i])
              # ("address" \in DOMAIN inFlight[i])

\* a request that carries the typed address is in flight when the position
\* asked for before arrives and clears the address
C27_Witness ==
  /\ app = "product"
  /\ location # Null
  /\ inFlight # <<>>
  /\ "address" \in DOMAIN inFlight[1]

----------------------------------------------------------------------------
\* C28: in the comma-separated-items App the plan is replaced only when the
\* response's data.status is 'success'; for any other status, a response that
\* is not JSON or has no data, or a network failure, the plan is left as it
\* was and an error message is set.
StatusIsSuccess(o) ==
  /\ o.kind = "response"
  /\ o.parses
  /\ "data" \in DOMAIN o.body
  /\ o.body.data.status = "success"

C28_PlanReplacedOnlyOnSuccess ==
  [][ /\ \A o \in CommaPlanOutcomes :
           handleOptimizeCommaSettles(o)
             => /\ StatusIsSuccess(o) => plan' = o.body.data.plan
                /\ ~StatusIsSuccess(o) => (plan' = plan /\ error' # Null)
      /\ (app = "comma" /\ plan' # plan)
           => \E o \in CommaPlanOutcomes :
                StatusIsSuccess(o) /\ handleOptimizeCommaSettles(o) ]_vars

\* a plan is shown and a later request has ended with another status
C28_Witness ==
  /\ app = "comma"
  /\ plan # <<>>
  /\ error = Some(<<"Optimization failed: ", "infeasible">>)

----------------------------------------------------------------------------
\* The latest step was an optimizeShoppingRoute call whose request failed, so
\* that it resolved with the mock plan.
MockPlanReturned ==
  /\ app = "select"
  /\ fetched # NoFetch
  /\ fetched[1].fn = "optimizeShoppingRoute"
  /\ TryFetchJson(fetched[1].outcome).threw

\* how many times the item stands in the store lists of the plan
TimesInPlan(p, item) ==
  SumOver([k \in DOMAIN p |-> CountIn(p[k], item)], DOMAIN p)

\* C24: when the remote call fails, the mock plan optimizeShoppingRoute
\* returns holds every requested item exactly once across its store lists,
\* for every non-empty item list and non-empty list of selected store names.
C24_MockPlanHoldsEveryItemOnce ==
  (/\ MockPlanReturned
   /\ fetched[1].items # <<>>
   /\ fetched[1].stores # <<>>)
    => \A i \in DOMAIN fetched[1].items :
         TimesInPlan(fetched[1].result.value.Plan, fetched[1].items[i]) = 1

\* C25: the mock plan optimizeShoppingRoute returns assigns items only to
\* stores that are in the list of selected store names passed to it.
C25_MockPlanUsesSelectedStoresOnly ==
  MockPlanReturned
    => \A k \in DOMAIN fetched[1].result.value.Plan :
         fetched[1].result.value.Plan[k] # <<>>
           => \E j \in DOMAIN fetched[1].stores : fetched[1].stores[j] = k

----------------------------------------------------------------------------
\* C29: in the store-selection component, after any sequence of addItem and
\* removeItem the items hold no name twice and no empty or whitespace-only
\* name; adding a name that is already in the list, or a blank name, leaves
\* the list as it was.
NoNameTwiceNoneBlank(its) ==
  /\ \A i, j \in DOMAIN its : its[i] = its[j] => i = j
  /\ \A i \in DOMAIN its : ~IsBlank(its[i])

C29_ItemsDistinctAndNotBlank ==
  [][ /\ NoNameTwiceNoneBlank(groceryList')
      /\ (/\ addItemSelect
          /\ IsBlank(newItem) \/ Includes(groceryList, Trim(newItem)))
           => groceryList' = groceryList ]_vars

\* the name typed, once trimmed, is already the second item of the list
C29_Witness ==
  /\ app = "select"
  /\ Len(groceryList) = 2
  /\ newItem # Trim(newItem)
  /\ groceryList[2] = Trim(newItem)

----------------------------------------------------------------------------
\* The busy flag of the component mounted: isOptimizing in the remote-backed
\* and the store-selection component, loading in the two Apps.
Busy ==
  \/ app \in {"remote", "select"} /\ isOptimizing
  \/ app \in {"product", "comma"} /\ loading

\* C22: every optimize action that has set the busy flag sets it back to
\* false once its remote call has ended, on every path: the call succeeds, it
\* fails and a fallback route is stored, it fails and no store is in radius.
C22_BusyFlagIsReset == Busy ~> ~Busy

\* the remote call has failed with no store in radius, the handler has
\* returned from its catch block, and the flag is down
C22_Witness ==
  /\ app = "remote"
  /\ toasts = <<ToastApiError, ToastNoStores>>
  /\ call.status = "settled"
  /\ ~isOptimizing

----------------------------------------------------------------------------
\* C23: in each component that optimizes through a remote call a request
\* starts only while the busy flag is false, so at most one is in flight at
\* any time, and the stored route or plan is set only by the response of the
\* one request in flight, never by that of an older one.
C23_OneOptimizeRequestAtATime ==
  [][ /\ Len(inFlight') <= 1
      /\ Len(inFlight') > Len(inFlight) => (~Busy /\ Busy')
      /\ (route' # route \/ plan' # plan) => Len(inFlight) = 1 ]_vars

\* a route is stored and the next request is in flight, the buttons disabled
C23_Witness ==
  /\ app = "remote"
  /\ route # NoRoute
  /\ Len(inFlight) = 1
  /\ isOptimizing

====
